---- MODULE Spec2Model ----
(***************************************************************************)
(* Model of the verdict rule engine (mgvdev/verdict): the operator tree,   *)
(* the dotted / wildcard path resolver, the value comparator, the JSON     *)
(* serializer and the Engine facade.                                       *)
(*                                                                         *)
(* JavaScript values are records of one shape [t, n, s, c, id]:            *)
(*   t  - the kind: "undefined" "null" "boolean" "number" "string"         *)
(*        "symbol" "function" "array" "object" "date" "node" "entry"       *)
(*        "throw" "none"                                                   *)
(*   n  - the number (its floor, when it is no integer), the boolean (0/1) *)
(*        or the instant of a Date                                         *)
(*   s  - a string as the sequence of its '.'-separated segments, so that  *)
(*        s.split(".") is s itself; the key of an entry; the operator of a *)
(*        node; the message of a thrown error                              *)
(*   c  - the elements of an array, the entries of an object, the fields   *)
(*        of a node in constructor order, the tenths of a number that is   *)
(*        no integer                                                       *)
(*   id - the identity of a reference value (=== on objects, arrays and    *)
(*        Dates compares identities)                                       *)
(***************************************************************************)
EXTENDS Integers, Sequences, FiniteSets, TLC

\* ------------------------------------------------------------------ bounds
\* longest array a context holds
MaxLen == 2
\* most operands of an and / or node
MaxArgs == 2

\* ------------------------------------------------------------------ values
V(t, n, s, c, id) == [t |-> t, n |-> n, s |-> s, c |-> c, id |-> id]

\* a variable that holds nothing yet (not a JavaScript value)
None == V("none", 0, <<>>, <<>>, 0)
Undef == V("undefined", 0, <<>>, <<>>, 0)
Null == V("null", 0, <<>>, <<>>, 0)
Bool(b) == V("boolean", IF b THEN 1 ELSE 0, <<>>, <<>>, 0)
Num(n) == V("number", n, <<>>, <<>>, 0)
\* a number that is no integer: Dec(5, 7) is 5.7 and Dec(-2, 5) is -1.5
Dec(n, tenths) == V("number", n, <<>>, <<Num(tenths)>>, 0)
\* a number in tenths
Tenths(v) == v.n * 10 + (IF v.c = <<>> THEN 0 ELSE v.c[1].n)
\* the result of converting a non-numeric string to a number
NaN == V("number", 0, <<"NaN">>, <<>>, 0)
\* a string, given as its segments: Str(<<"user", "age">>) is "user.age"
Str(segs) == V("string", 0, segs, <<>>, 0)
S1(a) == Str(<<a>>)
Func(name) == V("function", 0, <<name>>, <<>>, 0)
Arr(id, items) == V("array", 0, <<>>, items, id)
Entry(k, v) == V("entry", 0, <<k>>, <<v>>, 0)
Obj(id, entries) == V("object", 0, <<>>, entries, id)
DateV(id, instant) == V("date", instant, <<>>, <<>>, id)
Throw(msg) == V("throw", 0, <<msg>>, <<>>, 0)

IsThrow(v) == v.t = "throw"
TypeError == Throw("TypeError")

\* export const self = Symbol("self")
self == V("symbol", 0, <<"self">>, <<>>, 0)
\* export const serializedSelfSymbol = "#$self$#"
serializedSelfSymbol == S1("#$self$#")

\* an instance of an operator class: its fields in constructor order
Node(op, fields) == V("node", 0, <<op>>, fields, 0)

\* typeof v === "object" (null included, as in JavaScript)
TypeofObject(v) == v.t \in {"null", "array", "object", "date", "node"}

\* JavaScript ToBoolean
Truthy(v) ==
  CASE v.t \in {"undefined", "null"} -> FALSE
    [] v.t = "boolean" -> v.n = 1
    [] v.t = "number" -> Tenths(v) # 0 /\ v.s = <<>>
    [] v.t = "string" -> v.s # <<"">>
    [] OTHER -> TRUE

\* ------------------------------------------------------- sequence helpers
RECURSIVE Concat(_)
Concat(ss) == IF ss = <<>> THEN <<>> ELSE Head(ss) \o Concat(Tail(ss))

\* all sequences over S of length 0..n
SeqsUpTo(S, n) == UNION {[1..k -> S] : k \in 0..n}

\* ------------------------------------------------------------ properties
\* members every object inherits from Object.prototype (a representative set)
ObjectProtoKeys == {"constructor", "toString", "valueOf", "hasOwnProperty"}
\* members an array inherits from Array.prototype besides those
ArrayProtoKeys == {"map", "includes"}
\* members of Date.prototype
DateProtoKeys == {"getTime", "toJSON"}

\* decimal index segments: DigitStr[i + 1] is the text of index i
DigitStr == <<"0", "1", "2", "3", "4">>
IsIndex(seg) == \E i \in 1..Len(DigitStr) : DigitStr[i] = seg
IndexOf(seg) == CHOOSE i \in 1..Len(DigitStr) : DigitStr[i] = seg

HasOwnKey(o, k) == \E i \in 1..Len(o.c) : o.c[i].s = <<k>>
OwnValue(o, k) == o.c[CHOOSE i \in 1..Len(o.c) : o.c[i].s = <<k>>].c[1]

\* the own field names of the operator classes, in constructor order
NodeFields(op) ==
  CASE op \in {"and", "or"} -> <<"args">>
    [] op = "not" -> <<"operand">>
    [] op \in {"in", "notIn"} -> <<"value", "list">>
    [] op \in {"any", "all", "none"} -> <<"arrayPath", "condition">>
    [] OTHER -> <<"left", "right">>

\* `part in acc` for acc with typeof "object", acc not null
HasProperty(acc, part) ==
  CASE acc.t = "object" -> HasOwnKey(acc, part) \/ part \in ObjectProtoKeys
    [] acc.t = "array" ->
         \/ IsIndex(part) /\ IndexOf(part) <= Len(acc.c)
         \/ part = "length"
         \/ part \in ArrayProtoKeys \cup ObjectProtoKeys
    [] acc.t = "date" -> part \in DateProtoKeys \cup ObjectProtoKeys
    [] acc.t = "node" -> part \in {"compute", "toJSON"} \cup ObjectProtoKeys
    [] OTHER -> FALSE

\* acc[part] when `part in acc`
GetProperty(acc, part) ==
  CASE acc.t = "object" /\ HasOwnKey(acc, part) -> OwnValue(acc, part)
    [] acc.t = "array" /\ IsIndex(part) -> acc.c[IndexOf(part)]
    [] acc.t = "array" /\ part = "length" -> Num(Len(acc.c))
    [] OTHER -> Func(part)

\* ------------------------------------------------------------ path resolver
\* path.includes("*"): every segment of the strings used here is either the
\* wildcard "*" or free of '*'
IncludesStar(segs) == \E i \in 1..Len(segs) : segs[i] = "*"

\* one step of the reduce of getValueFromPath
PathStep(acc, part) ==
  IF acc.t \in {"null", "undefined"} THEN Undef
  ELSE IF TypeofObject(acc) /\ HasProperty(acc, part) THEN GetProperty(acc, part)
  ELSE Undef

\* path.split(".").reduce(step, obj)
RECURSIVE ReducePath(_, _)
ReducePath(acc, segs) ==
  IF segs = <<>> THEN acc ELSE ReducePath(PathStep(acc, Head(segs)), Tail(segs))

RECURSIVE DropUndefined(_)
\* a variant of the filter that keeps the undefined results
KeepUndefined(items) == items

\* results.filter((item) => item !== undefined)
DropUndefined(items) ==
  IF items = <<>> THEN <<>>
  ELSE (IF Head(items) = Undef THEN <<>> ELSE <<Head(items)>>) \o DropUndefined(Tail(items))

RECURSIVE FlatDefined(_)
\* a variant of flat that leaves the undefined results out
FlatDefined(items) ==
  IF items = <<>> THEN <<>>
  ELSE (IF Head(items).t = "array" THEN Head(items).c
        ELSE IF Head(items) = Undef THEN <<>> ELSE <<Head(items)>>)
         \o FlatDefined(Tail(items))

RECURSIVE Flat(_)

\* results.flat(): one level, array results spliced in, others kept
Flat(items) ==
  IF items = <<>> THEN <<>>
  ELSE (IF Head(items).t = "array" THEN Head(items).c ELSE <<Head(items)>>) \o Flat(Tail(items))

\* identity of an object built during a call: the same as no other object
FreshId == 0

RECURSIVE WildcardFrom(_, _)
\* the for loop of getValueFromPathWithWildcard, from `current` over the
\* segments still to visit
WildcardFrom(current, segs) ==
  IF segs = <<>> THEN current
  ELSE IF current.t \in {"null", "undefined"} THEN Undef
  ELSE IF Head(segs) = "*" THEN
    IF current.t # "array" THEN Undef
    ELSE IF Tail(segs) \in {<<>>, <<"">>} THEN current
    ELSE LET remaining == Tail(segs)
             results == [i \in 1..Len(current.c) |->
                           IF IncludesStar(remaining)
                           THEN WildcardFrom(current.c[i], remaining)
                           ELSE ReducePath(current.c[i], remaining)]
         IN IF \E i \in 1..Len(results) : results[i].t = "array"
            THEN Arr(FreshId, Flat(results))
            ELSE Arr(FreshId, DropUndefined(results))
  ELSE IF TypeofObject(current) /\ HasProperty(current, Head(segs))
       THEN WildcardFrom(GetProperty(current, Head(segs)), Tail(segs))
       ELSE Undef

\* a variant that returns a copy of the array it found
WildcardCopies(obj, path) ==
  LET result == WildcardFrom(obj, path.s)
  IN IF result.t = "array" THEN Arr(FreshId, result.c) ELSE result

getValueFromPathWithWildcard(obj, path) == WildcardFrom(obj, path.s)

\* getValueFromPath(obj, path); a path that is not a string has no
\* includes / split to call and the call throws
getValueFromPath(obj, path) ==
  IF path.t # "string" THEN TypeError
  ELSE IF IncludesStar(path.s) THEN getValueFromPathWithWildcard(obj, path)
  ELSE ReducePath(obj, path.s)

\* console.log(obj, path): the line it writes
Line(obj, path) == [obj |-> obj, path |-> path]

RECURSIVE WildcardWrites(_, _)
\* what the calls of getValueFromPath made inside the wildcard loop write
WildcardWrites(current, segs) ==
  IF segs = <<>> THEN <<>>
  ELSE IF current.t \in {"null", "undefined"} THEN <<>>
  ELSE IF Head(segs) = "*" THEN
    IF current.t # "array" \/ Tail(segs) \in {<<>>, <<"">>} THEN <<>>
    ELSE LET remaining == Tail(segs)
         IN Concat([i \in 1..Len(current.c) |->
                      IF IncludesStar(remaining)
                      THEN WildcardWrites(current.c[i], remaining)
                      ELSE <<Line(current.c[i], Str(remaining))>>])
  ELSE IF TypeofObject(current) /\ HasProperty(current, Head(segs))
       THEN WildcardWrites(GetProperty(current, Head(segs)), Tail(segs))
       ELSE <<>>

\* what a call getValueFromPath(obj, path) writes to the console: its first
\* statement is console.log(obj, path)
Writes(obj, path) ==
  <<Line(obj, path)>>
    \o (IF path.t = "string" /\ IncludesStar(path.s) THEN WildcardWrites(obj, path.s) ELSE <<>>)

\* --------------------------------------------------------- value comparator
\* The strings that match isoDateRegex, with what new Date(string) gives.
\* Instants are counted on an abstract clock whose order is that of the real
\* one; a number n is the timestamp of instant n on the same clock.
IsoTable ==
  << [s |-> <<"2023-01-15">>, time |-> 15, valid |-> TRUE],
     [s |-> <<"2023-01-16">>, time |-> 16, valid |-> TRUE],
     [s |-> <<"2023-01-15T00:00:00", "000Z">>, time |-> 15, valid |-> TRUE],
     [s |-> <<"2023-01-16T00:00:00", "000Z">>, time |-> 16, valid |-> TRUE],
     [s |-> <<"2023-13-45">>, time |-> 0, valid |-> FALSE] >>

\* isoDateRegex.test(value)
MatchesIso(segs) == \E i \in 1..Len(IsoTable) : IsoTable[i].s = segs
IsoRow(segs) == IsoTable[CHOOSE i \in 1..Len(IsoTable) : IsoTable[i].s = segs]

\* an invalid Date: getTime() is NaN
InvalidDate(id) == V("date", 0, <<"Invalid Date">>, <<>>, id)
IsInvalidDate(v) == v.t = "date" /\ v.s # <<>>

\* new Date(string) for a string that matches the regex
DateOfString(segs) ==
  IF IsoRow(segs).valid THEN DateV(FreshId, IsoRow(segs).time) ELSE InvalidDate(FreshId)

\* Date.prototype.toISOString for the instants of the table
ToISOString(time) ==
  IF time = 15 THEN Str(<<"2023-01-15T00:00:00", "000Z">>)
  ELSE IF time = 16 THEN Str(<<"2023-01-16T00:00:00", "000Z">>)
  ELSE Str(<<"1970-01-01T00:00:00", "000Z">>)

\* Date.prototype.toJSON: null for an invalid Date
DateToJSON(d) == IF IsInvalidDate(d) THEN Null ELSE ToISOString(d.n)

isDateLike(value) ==
  CASE value.t = "date" -> ~IsInvalidDate(value)
    [] value.t = "string" -> MatchesIso(value.s) /\ IsoRow(value.s).valid
    [] value.t = "number" -> value.s = <<>> /\ Tenths(value) > 0
    [] OTHER -> FALSE

\* a variant without the test of isoDateRegex: every string goes through
\* new Date(string), an invalid Date for the strings outside the table
normalizeDateAnyString(value) ==
  CASE value.t = "date" -> value
    [] value.t = "string" ->
         IF MatchesIso(value.s) THEN DateOfString(value.s) ELSE InvalidDate(FreshId)
    [] value.t = "number" /\ value.s = <<>> /\ Tenths(value) > 0 -> DateV(FreshId, value.n)
    [] OTHER -> value

\* new Date(number) keeps the whole milliseconds of the number
normalizeDate(value) ==
  CASE value.t = "date" -> value
    [] value.t = "string" /\ MatchesIso(value.s) /\ IsoRow(value.s).valid ->
         DateOfString(value.s)
    [] value.t = "number" /\ value.s = <<>> /\ Tenths(value) > 0 -> DateV(FreshId, value.n)
    [] OTHER -> value

\* the strings of the model in ascending order of their UTF-16 code units
StrSorted ==
  << <<"">>, <<"#$self$#">>, <<"*">>, <<"0">>, <<"1">>, <<"10">>,
     <<"2023-01-15">>, <<"2023-01-15T00:00:00", "000Z">>,
     <<"2023-01-16">>, <<"2023-01-16T00:00:00", "000Z">>, <<"2023-13-45">>,
     <<"AND">>, <<"active">>, <<"admin">>, <<"age">>, <<"apple">>, <<"banana">>,
     <<"items">>, <<"items", "*">>, <<"missing">>, <<"name">>,
     <<"user">>, <<"user", "name">> >>
StrRank(segs) ==
  IF \E i \in 1..Len(StrSorted) : StrSorted[i] = segs
  THEN CHOOSE i \in 1..Len(StrSorted) : StrSorted[i] = segs
  ELSE 0

\* ToNumber of a string
StrToNumber(segs) ==
  CASE segs = <<"">> -> Num(0)
    [] segs = <<"0">> -> Num(0)
    [] segs = <<"1">> -> Num(1)
    [] segs = <<"10">> -> Num(10)
    [] OTHER -> NaN

ToNumber(v) == IF v.t = "string" THEN StrToNumber(v.s) ELSE v

\* left < right for operands that are numbers or strings
JsLess(left, right) ==
  IF left.t = "string" /\ right.t = "string" THEN StrRank(left.s) < StrRank(right.s)
  ELSE LET l == ToNumber(left)
           r == ToNumber(right)
       IN l.s = <<>> /\ r.s = <<>> /\ Tenths(l) < Tenths(r)

\* left <= right for operands that are numbers or strings
JsLessEq(left, right) ==
  IF left.t = "string" /\ right.t = "string" THEN StrRank(left.s) <= StrRank(right.s)
  ELSE LET l == ToNumber(left)
           r == ToNumber(right)
       IN l.s = <<>> /\ r.s = <<>> /\ Tenths(l) <= Tenths(r)

Orderable(v) == v.t \in {"number", "string"}

\* left === right: primitives by value (NaN equals nothing), references by
\* identity
StrictEquals(left, right) ==
  IF left.t # right.t THEN FALSE
  ELSE IF left.t \in {"array", "object", "date", "node"}
       THEN left.id = right.id /\ left.id # FreshId
  ELSE IF left.t = "number" /\ left.s # <<>> THEN FALSE
  ELSE left = right

\* the relation on two times, either of which may be NaN
CompareTimes(l, r, operator) ==
  LET nan == IsInvalidDate(l) \/ IsInvalidDate(r)
  IN CASE operator = ">" -> ~nan /\ l.n > r.n
       [] operator = "<" -> ~nan /\ l.n < r.n
       [] operator = ">=" -> ~nan /\ l.n >= r.n
       [] operator = "<=" -> ~nan /\ l.n <= r.n
       [] operator = "===" -> ~nan /\ l.n = r.n
       [] operator = "!==" -> nan \/ l.n # r.n
       [] OTHER -> FALSE

compareValues(left, right, operator) ==
  LET normalizedLeft == normalizeDate(left)
      normalizedRight == normalizeDate(right)
  IN IF normalizedLeft.t = "date" /\ normalizedRight.t = "date"
     THEN CompareTimes(normalizedLeft, normalizedRight, operator)
     ELSE CASE operator = ">" -> Orderable(left) /\ Orderable(right) /\ JsLess(right, left)
            [] operator = "<" -> Orderable(left) /\ Orderable(right) /\ JsLess(left, right)
            [] operator = ">=" -> Orderable(left) /\ Orderable(right) /\ JsLessEq(right, left)
            [] operator = "<=" -> Orderable(left) /\ Orderable(right) /\ JsLessEq(left, right)
            [] operator = "===" -> StrictEquals(left, right)
            [] operator = "!==" -> ~StrictEquals(left, right)
            [] OTHER -> FALSE

\* ------------------------------------------------------------ operator tree
Registry ==
  {"and", "eq", "or", "not", "ne", "gt", "gte", "lt", "lte", "in", "notIn",
   "any", "all", "none"}
Variadic == {"and", "or"}
Comparisons == {"eq", "ne", "gt", "gte", "lt", "lte"}
Quantifiers == {"any", "all", "none"}

\* the classes whose resolveValue starts with `if (val === self) return context`
ResolvesSelf == {"eq", "gt", "lt"}

\* the operator each comparison class hands to compareValues
CompareSym(op) ==
  CASE op = "eq" -> "==="
    [] op = "ne" -> "!=="
    [] op = "gt" -> ">"
    [] op = "gte" -> ">="
    [] op = "lt" -> "<"
    [] OTHER -> "<="

\* a variant in which every class takes its arguments one by one
NewFixedArity(op, args) ==
  Node(op, [i \in 1..Len(NodeFields(op)) |-> IF i <= Len(args) THEN args[i] ELSE Undef])

\* new OperatorClass(...args): a missing parameter is undefined, an extra
\* argument is dropped; and / or keep them all
New(op, args) ==
  IF op \in Variadic THEN Node(op, args)
  ELSE Node(op, [i \in 1..Len(NodeFields(op)) |-> IF i <= Len(args) THEN args[i] ELSE Undef])

\* list.includes(v): SameValueZero, which finds NaN
Includes(list, v) ==
  \E i \in 1..Len(list) : StrictEquals(list[i], v) \/ (v = NaN /\ list[i] = NaN)

\* what a call has observed: k = "compute" for a call of compute on the node
\* at position `at` of the tree with context ctx, "resolve" for a call of
\* resolveValue on the operand at position `at`
Event(k, at, ctx) == [k |-> k, at |-> at, ctx |-> ctx]
\* the outcome of a call: the value returned or thrown, and what it observed
Out(r, log) == [r |-> r, log |-> log]

RECURSIVE compute(_, _, _)
RECURSIVE resolveValue(_, _, _, _)
RECURSIVE EveryFrom(_, _, _, _)
RECURSIVE SomeFrom(_, _, _, _)
RECURSIVE LoopFrom(_, _, _, _)
RECURSIVE EveryFromEager(_, _, _, _)
RECURSIVE LoopFromUncaught(_, _, _, _)
RECURSIVE LoopFromExhaustive(_, _, _, _)
RECURSIVE LoopFromNoneAborts(_, _, _, _)
RECURSIVE resolveValueTruthy(_, _, _, _)
RECURSIVE resolveValueStrict(_, _, _, _)

\* a variant that takes the resolved value only when it is truthy
resolveValueTruthy(val, context, withSelf, at) ==
  LET ev == <<Event("resolve", at, context)>>
      resolved == IF val.t = "string" /\ Truthy(context)
                  THEN getValueFromPath(context, val) ELSE Undef
  IN IF withSelf /\ val = self THEN Out(context, ev)
     ELSE IF ~IsThrow(resolved) /\ Truthy(resolved) THEN Out(resolved, ev)
     ELSE IF val.t = "node"
          THEN LET sub == compute(val, context, at) IN Out(sub.r, ev \o sub.log)
     ELSE IF val.t = "object" /\ HasOwnKey(val, "compute")
          THEN Out(TypeError, ev)
     ELSE Out(val, ev)

\* a variant in which a string that does not resolve is undefined
resolveValueStrict(val, context, withSelf, at) ==
  LET ev == <<Event("resolve", at, context)>>
      resolved == IF val.t = "string" /\ Truthy(context)
                  THEN getValueFromPath(context, val) ELSE Undef
  IN IF withSelf /\ val = self THEN Out(context, ev)
     ELSE IF val.t = "string" THEN Out(resolved, ev)
     ELSE IF val.t = "node"
          THEN LET sub == compute(val, context, at) IN Out(sub.r, ev \o sub.log)
     ELSE IF val.t = "object" /\ HasOwnKey(val, "compute")
          THEN Out(TypeError, ev)
     ELSE Out(val, ev)

\* the resolveValue closure of a compute method; withSelf tells whether the
\* class has the self branch
resolveValue(val, context, withSelf, at) ==
  LET ev == <<Event("resolve", at, context)>>
      resolved == IF val.t = "string" /\ Truthy(context)
                  THEN getValueFromPath(context, val) ELSE Undef
  IN IF withSelf /\ val = self THEN Out(context, ev)
     ELSE IF resolved # Undef THEN Out(resolved, ev)
     ELSE IF val.t = "node"
          THEN LET sub == compute(val, context, at) IN Out(sub.r, ev \o sub.log)
     ELSE IF val.t = "object" /\ HasOwnKey(val, "compute")
          THEN Out(TypeError, ev)
     ELSE Out(val, ev)

\* a variant of every that resolves all the operands before it combines them
EveryFromEager(node, context, at, i) ==
  IF i > Len(node.c) THEN Out(Bool(TRUE), <<>>)
  ELSE LET one == resolveValue(node.c[i], context, FALSE, at \o <<i>>)
           rest == EveryFromEager(node, context, at, i + 1)
       IN IF IsThrow(one.r) THEN one
          ELSE IF IsThrow(rest.r) THEN Out(rest.r, one.log \o rest.log)
          ELSE Out(Bool(Truthy(one.r) /\ Truthy(rest.r)), one.log \o rest.log)

\* this.args.every((arg) => resolveValue(arg)) from operand i on
EveryFrom(node, context, at, i) ==
  IF i > Len(node.c) THEN Out(Bool(TRUE), <<>>)
  ELSE LET one == resolveValue(node.c[i], context, FALSE, at \o <<i>>)
       IN IF IsThrow(one.r) THEN one
          ELSE IF ~Truthy(one.r) THEN Out(Bool(FALSE), one.log)
          ELSE LET rest == EveryFrom(node, context, at, i + 1)
               IN Out(rest.r, one.log \o rest.log)

\* this.args.some((arg) => resolveValue(arg)) from operand i on
SomeFrom(node, context, at, i) ==
  IF i > Len(node.c) THEN Out(Bool(FALSE), <<>>)
  ELSE LET one == resolveValue(node.c[i], context, FALSE, at \o <<i>>)
       IN IF IsThrow(one.r) THEN one
          ELSE IF Truthy(one.r) THEN Out(Bool(TRUE), one.log)
          ELSE LET rest == SomeFrom(node, context, at, i + 1)
               IN Out(rest.r, one.log \o rest.log)

\* this.condition.compute(element) inside the try block; a condition that
\* is no node has no compute to call
TryCondition(node, element, at) ==
  LET condition == node.c[2]
  IN IF condition.t = "node" THEN compute(condition, element, at \o <<2>>)
     ELSE Out(TypeError, <<>>)

\* a variant of the loop without the try / catch: what the condition throws
\* leaves the loop
LoopFromUncaught(node, items, at, i) ==
  IF i > Len(items) THEN Out(Bool(node.s # <<"any">>), <<>>)
  ELSE LET one == TryCondition(node, items[i], at)
           rest == LoopFromUncaught(node, items, at, i + 1)
           stop == IF node.s = <<"all">> THEN ~Truthy(one.r) ELSE Truthy(one.r)
       IN IF IsThrow(one.r) THEN one
          ELSE IF stop THEN Out(Bool(node.s = <<"any">>), one.log)
          ELSE Out(rest.r, one.log \o rest.log)

\* a variant of the loop that visits every element before it decides
LoopFromExhaustive(node, items, at, i) ==
  IF i > Len(items) THEN Out(Bool(node.s # <<"any">>), <<>>)
  ELSE LET one == TryCondition(node, items[i], at)
           hit == ~IsThrow(one.r) /\ Truthy(one.r)
           rest == LoopFromExhaustive(node, items, at, i + 1)
       IN CASE node.s = <<"any">> -> Out(Bool(hit \/ Truthy(rest.r)), one.log \o rest.log)
            [] node.s = <<"none">> -> Out(Bool(~hit /\ Truthy(rest.r)), one.log \o rest.log)
            [] OTHER -> Out(Bool(hit /\ Truthy(rest.r)), one.log \o rest.log)

\* a variant in which None, like All, returns false from its catch block
LoopFromNoneAborts(node, items, at, i) ==
  IF i > Len(items) THEN Out(Bool(node.s # <<"any">>), <<>>)
  ELSE LET one == TryCondition(node, items[i], at)
           hit == ~IsThrow(one.r) /\ Truthy(one.r)
           rest == LoopFromNoneAborts(node, items, at, i + 1)
       IN CASE node.s = <<"any">> ->
                 IF hit THEN Out(Bool(TRUE), one.log)
                 ELSE Out(rest.r, one.log \o rest.log)
            [] node.s = <<"none">> ->
                 IF hit \/ IsThrow(one.r) THEN Out(Bool(FALSE), one.log)
                 ELSE Out(rest.r, one.log \o rest.log)
            [] OTHER ->
                 IF IsThrow(one.r) \/ ~Truthy(one.r) THEN Out(Bool(FALSE), one.log)
                 ELSE Out(rest.r, one.log \o rest.log)

\* the for loop of Any / All / None over the elements from index i on
LoopFrom(node, items, at, i) ==
  IF i > Len(items) THEN Out(Bool(node.s # <<"any">>), <<>>)
  ELSE LET one == TryCondition(node, items[i], at)
           hit == ~IsThrow(one.r) /\ Truthy(one.r)
           rest == LoopFrom(node, items, at, i + 1)
       IN CASE node.s = <<"any">> ->
                 IF hit THEN Out(Bool(TRUE), one.log)
                 ELSE Out(rest.r, one.log \o rest.log)
            [] node.s = <<"none">> ->
                 IF hit THEN Out(Bool(FALSE), one.log)
                 ELSE Out(rest.r, one.log \o rest.log)
            [] OTHER ->
                 IF IsThrow(one.r) \/ ~Truthy(one.r) THEN Out(Bool(FALSE), one.log)
                 ELSE Out(rest.r, one.log \o rest.log)

\* a variant that computes the condition with the enclosing context, once
\* per element
QuantifyEnclosing(node, context, at) ==
  LET absent == Bool(node.s = <<"none">>)
      arrayValue == getValueFromPath(context, node.c[1])
  IN IF ~Truthy(context) THEN Out(absent, <<>>)
     ELSE IF IsThrow(arrayValue) THEN Out(arrayValue, <<>>)
     ELSE IF arrayValue.t # "array" THEN Out(absent, <<>>)
     ELSE LoopFrom(node, [i \in 1..Len(arrayValue.c) |-> context], at, 1)

\* a variant that takes a path that resolves to no array for an empty array
QuantifyVacuous(node, context, at) ==
  LET arrayValue == IF Truthy(context) THEN getValueFromPath(context, node.c[1]) ELSE Undef
  IN IF IsThrow(arrayValue) THEN Out(arrayValue, <<>>)
     ELSE IF arrayValue.t # "array" THEN LoopFrom(node, <<>>, at, 1)
     ELSE LoopFrom(node, arrayValue.c, at, 1)

\* a variant that takes a value that is no array for an array of that one
\* value
QuantifyWrapsScalar(node, context, at) ==
  LET absent == Bool(node.s = <<"none">>)
      arrayValue == getValueFromPath(context, node.c[1])
  IN IF ~Truthy(context) THEN Out(absent, <<>>)
     ELSE IF IsThrow(arrayValue) THEN Out(arrayValue, <<>>)
     ELSE IF arrayValue = Undef THEN Out(absent, <<>>)
     ELSE IF arrayValue.t # "array" THEN LoopFrom(node, <<arrayValue>>, at, 1)
     ELSE LoopFrom(node, arrayValue.c, at, 1)

\* Any.compute, All.compute and None.compute
Quantify(node, context, at) ==
  LET absent == Bool(node.s = <<"none">>)
      arrayValue == getValueFromPath(context, node.c[1])
  IN IF ~Truthy(context) THEN Out(absent, <<>>)
     ELSE IF IsThrow(arrayValue) THEN Out(arrayValue, <<>>)
     ELSE IF arrayValue.t # "array" THEN Out(absent, <<>>)
     ELSE LoopFrom(node, arrayValue.c, at, 1)

\* Eq, Ne, Gt, Gte and Lt: both operands resolved, then compareValues
Compare(node, context, at) ==
  LET op == node.s[1]
      l == resolveValue(node.c[1], context, op \in ResolvesSelf, at \o <<1>>)
      r == resolveValue(node.c[2], context, op \in ResolvesSelf, at \o <<2>>)
  IN IF IsThrow(l.r) THEN l
     ELSE IF IsThrow(r.r) THEN Out(r.r, l.log \o r.log)
     ELSE Out(Bool(compareValues(l.r, r.r, CompareSym(op))), l.log \o r.log)

\* Lte.compute: its own type guard, no compareValues
LteCompute(node, context, at) ==
  LET l == resolveValue(node.c[1], context, FALSE, at \o <<1>>)
      r == resolveValue(node.c[2], context, FALSE, at \o <<2>>)
  IN IF IsThrow(l.r) THEN l
     ELSE IF IsThrow(r.r) THEN Out(r.r, l.log \o r.log)
     ELSE Out(Bool(Orderable(l.r) /\ Orderable(r.r) /\ JsLessEq(l.r, r.r)), l.log \o r.log)

\* Not.compute
NotCompute(node, context, at) ==
  LET one == resolveValue(node.c[1], context, FALSE, at \o <<1>>)
  IN IF IsThrow(one.r) THEN one ELSE Out(Bool(~Truthy(one.r)), one.log)

\* a variant that looks the operand up in the list as it is written, without
\* resolving it
MembershipUnresolved(node, context, at) ==
  LET one == Out(node.c[1], <<Event("resolve", at \o <<1>>, context)>>)
      list == node.c[2]
      isIn == node.s = <<"in">>
  IN IF list.t # "array" THEN Out(Bool(~isIn), one.log)
     ELSE Out(Bool(Includes(list.c, one.r) = isIn), one.log)

\* InOperator.compute and NotInOperator.compute
Membership(node, context, at) ==
  LET one == resolveValue(node.c[1], context, FALSE, at \o <<1>>)
      list == node.c[2]
      isIn == node.s = <<"in">>
  IN IF IsThrow(one.r) THEN one
     ELSE IF list.t # "array" THEN Out(Bool(~isIn), one.log)
     ELSE Out(Bool(Includes(list.c, one.r) = isIn), one.log)

\* node.compute(context)
compute(node, context, at) ==
  LET ev == <<Event("compute", at, context)>>
      op == node.s[1]
      body == CASE op = "and" -> EveryFrom(node, context, at, 1)
                [] op = "or" -> SomeFrom(node, context, at, 1)
                [] op = "not" -> NotCompute(node, context, at)
                [] op = "lte" -> LteCompute(node, context, at)
                [] op \in {"in", "notIn"} -> Membership(node, context, at)
                [] op \in Quantifiers -> Quantify(node, context, at)
                [] OTHER -> Compare(node, context, at)
  IN Out(body.r, ev \o body.log)

\* the default parameter `context = {}` of Engine.evaluate: one object for the
\* whole call, the same as itself and as no other
DefaultContext(context) == IF context = Undef THEN Obj(50, <<>>) ELSE context

\* Engine.evaluate(rule, context = {}): the default replaces a context that
\* is not passed (undefined); a rule without compute cannot be called
evaluate(rule, context) ==
  IF rule.t # "node" THEN Out(TypeError, <<>>)
  ELSE compute(rule, DefaultContext(context), <<>>)

RECURSIVE NodeAt(_, _)
\* the node or operand at a position of the tree
NodeAt(root, at) == IF at = <<>> THEN root ELSE NodeAt(root.c[Head(at)], Tail(at))

\* what the call an event stands for wrote: resolveValue calls
\* getValueFromPath for a string operand and a truthy context, a quantifier
\* for its arrayPath and a truthy context
EventWrites(root, e) ==
  LET x == NodeAt(root, e.at)
  IN IF ~Truthy(e.ctx) THEN <<>>
     ELSE IF e.k = "resolve" THEN (IF x.t = "string" THEN Writes(e.ctx, x) ELSE <<>>)
     ELSE IF x.s[1] \in Quantifiers THEN Writes(e.ctx, x.c[1])
     ELSE <<>>

\* what an evaluation of the tree wrote to the console, from its log
ConsoleOf(root, log) == Concat([i \in 1..Len(log) |-> EventWrites(root, log[i])])

\* --------------------------------------------------------------- serializer
\* { operator: op, args: [...] }
Doc(op, args) == Obj(FreshId, <<Entry("operator", op), Entry("args", Arr(FreshId, args))>>)

RECURSIVE toJSON(_)
RECURSIVE OperandToJSON(_)
RECURSIVE MapToJSON(_)

\* typeof arg === "object" && arg !== null && "toJSON" in arg
\*   ? arg.toJSON() : arg
OperandToJSON(arg) ==
  CASE arg.t = "node" -> toJSON(arg)
    [] arg.t = "date" -> DateToJSON(arg)
    [] arg.t = "object" /\ HasOwnKey(arg, "toJSON") -> TypeError
    [] OTHER -> arg

\* this.args.map(...) of And.toJSON and Or.toJSON; the first operand that
\* throws ends the map
MapToJSON(args) ==
  IF args = <<>> THEN <<>>
  ELSE LET one == OperandToJSON(Head(args))
       IN IF IsThrow(one) THEN <<one>> ELSE <<one>> \o MapToJSON(Tail(args))

ThrownIn(items) == \E i \in 1..Len(items) : IsThrow(items[i])
FirstThrown(items) == items[CHOOSE i \in 1..Len(items) : IsThrow(items[i])]

\* this.condition.toJSON() of Any.toJSON, All.toJSON and None.toJSON
ConditionToJSON(condition) ==
  CASE condition.t = "node" -> toJSON(condition)
    [] condition.t = "date" -> DateToJSON(condition)
    [] OTHER -> TypeError

\* node.toJSON()
toJSON(node) ==
  LET op == node.s[1]
      args == CASE op \in Variadic -> MapToJSON(node.c)
                [] op = "not" -> <<OperandToJSON(node.c[1])>>
                [] op \in {"in", "notIn"} -> <<OperandToJSON(node.c[1]), node.c[2]>>
                [] op \in Quantifiers -> <<node.c[1], ConditionToJSON(node.c[2])>>
                [] OTHER -> MapToJSON(node.c)
  IN IF ThrownIn(args) THEN FirstThrown(args) ELSE Doc(S1(op), args)

\* RuleSerializer.serialize(rule)
serialize(rule) == IF rule.t # "node" THEN TypeError ELSE toJSON(rule)

\* jsonRule.operator, jsonRule.args: reading a property of a value
ReadProperty(v, k) ==
  IF v.t \in {"undefined", "null"} THEN TypeError
  ELSE IF TypeofObject(v) /\ HasProperty(v, k) THEN GetProperty(v, k)
  ELSE Undef

\* operatorMap[name]: the class of a registry name; operatorMap is an object
\* literal, so a name of Object.prototype finds the inherited member
operatorMap(name) ==
  IF name.t = "string" /\ Len(name.s) = 1 /\ name.s[1] \in Registry THEN name
  ELSE IF name.t = "string" /\ Len(name.s) = 1 /\ name.s[1] \in ObjectProtoKeys
       THEN Func(name.s[1])
  ELSE Undef

\* new Object(...args)
NewObject(args) ==
  IF args # <<>> /\ args[1].t \in {"array", "object", "date", "node"} THEN args[1]
  ELSE Obj(FreshId, <<>>)

UnknownOperator == Throw("Unknown operator")

RECURSIVE deserialize(_)
RECURSIVE ResolveArgs(_)

\* jsonRule.args.map(...): stops at the first argument whose
\* deserialization throws
ResolveArgs(args) ==
  IF args = <<>> THEN <<>>
  ELSE LET arg == Head(args)
           one == IF arg = serializedSelfSymbol THEN self
                  ELSE IF arg.t \in {"array", "object", "date", "node"}
                          /\ HasProperty(arg, "operator")
                       THEN deserialize(arg)
                  ELSE arg
       IN IF IsThrow(one) THEN <<one>> ELSE <<one>> \o ResolveArgs(Tail(args))

\* RuleSerializer.deserialize(jsonRule)
deserialize(jsonRule) ==
  LET name == ReadProperty(jsonRule, "operator")
      OperatorClass == operatorMap(name)
      args == ReadProperty(jsonRule, "args")
      resolvedArgs == ResolveArgs(args.c)
  IN IF IsThrow(name) THEN name
     ELSE IF ~Truthy(OperatorClass) THEN UnknownOperator
     ELSE IF args.t # "array" THEN TypeError
     ELSE IF ThrownIn(resolvedArgs) THEN FirstThrown(resolvedArgs)
     ELSE IF OperatorClass.t = "string" THEN New(OperatorClass.s[1], resolvedArgs)
     ELSE IF OperatorClass = Func("constructor") THEN NewObject(resolvedArgs)
     ELSE TypeError

\* ------------------------------------------------------------------ inputs
AdminRole == Obj(1, <<Entry("name", S1("admin"))>>)
UserRole == Obj(2, <<Entry("name", S1("user"))>>)
\* what the arrays of a context hold: two records and two primitives
Elements == {AdminRole, UserRole, S1("apple"), Num(0)}
Arrays == {Arr(3, items) : items \in SeqsUpTo(Elements, MaxLen)}

\* a context { items: v, name: "admin" }
ContextWith(v) == Obj(4, <<Entry("items", v), Entry("name", S1("admin"))>>)
EmptyContext == Obj(5, <<>>)
\* values at `items` that are no array
NonArrays == {S1("apple"), Num(10), Null, AdminRole}
\* Undef stands for a call of evaluate without a context
Contexts ==
  {Undef, Null, EmptyContext} \cup {ContextWith(v) : v \in Arrays \cup NonArrays}

\* a literal object operand that has a `compute` key
ComputeKeyed == Obj(6, <<Entry("compute", Num(1))>>)
Jan16 == DateV(7, 16)
Raises == Node("not", <<ComputeKeyed>>)
NameIsAdmin == Node("eq", <<S1("name"), S1("admin")>>)

\* the conditions of the quantifiers
Conditions ==
  { NameIsAdmin,
    Node("eq", <<self, S1("apple")>>),
    Node("gte", <<self, Num(0)>>),
    Node("not", <<S1("name")>>),
    Node("or", <<NameIsAdmin, Raises>>),
    Node("and", <<NameIsAdmin, Raises>>),
    Node("in", <<S1("name"), Arr(8, <<S1("admin"), S1("user")>>)>>) }
ArrayPaths == {S1("items"), Str(<<"items", "*">>), S1("missing"), S1("name")}
QuantifierRules ==
  {Node(op, <<path, cond>>) : op \in Quantifiers, path \in ArrayPaths, cond \in Conditions}

\* the operands of and / or / not
LogicalOperands ==
  {S1("name"), S1("missing"), Num(0), self, NameIsAdmin, Raises}
LogicalRules ==
  {Node(op, args) : op \in Variadic, args \in SeqsUpTo(LogicalOperands, MaxArgs)}
    \cup {Node("not", <<a>>) : a \in LogicalOperands}

\* the operands of the comparisons and of in / notIn
Leaves ==
  {S1("name"), S1("apple"), S1("2023-01-16"), Num(1), Null, Jan16, self, ComputeKeyed}
ComparisonRules == {Node(op, <<l, r>>) : op \in Comparisons, l \in Leaves, r \in Leaves}
Lists == {Arr(9, <<S1("admin"), Num(1), Jan16>>), S1("admin")}
MembershipRules == {Node(op, <<v, list>>) : op \in {"in", "notIn"}, v \in Leaves, list \in Lists}

Rules == QuantifierRules \cup LogicalRules \cup ComparisonRules \cup MembershipRules

\* documents handed to deserialize: well-formed ones, ones whose operator is
\* no registry name, and ones with missing arguments
OperatorNames ==
  {S1("eq"), S1("bogus"), S1("AND"), S1("constructor"), S1("toString")}
LeafDocs ==
  {Doc(name, args) : name \in OperatorNames,
                     args \in {<<S1("name"), S1("admin")>>,
                               <<serializedSelfSymbol, S1("apple")>>,
                               <<>>}}
NestedDocs ==
  {Doc(S1(op), <<d>>) : op \in {"and", "not"}, d \in LeafDocs}
    \cup {Doc(S1(op), <<path, d>>) : op \in Quantifiers, path \in {S1("items"), Str(<<"items", "*">>)},
                                    d \in LeafDocs}
    \cup {Doc(S1("any"), args) : args \in {<<>>, <<S1("items")>>}}
    \cup {Doc(S1("in"), <<S1("name"), Arr(8, <<S1("admin")>>)>>)}
Docs == LeafDocs \cup NestedDocs

\* ----------------------------------------------------------- state machine
VARIABLES
  rule,      \* the operator tree the caller built, None in a session that starts from a document
  context,   \* the context the caller evaluates against
  doc,       \* the document: serialize(rule), or the caller's document
  restored,  \* deserialize(doc)
  redoc,     \* serialize(restored)
  verdict,   \* the outcome of evaluate(rule, context)
  verdict2,  \* the outcome of evaluate(restored, context)
  path,      \* the path a caller of getValueFromPath passes, None otherwise
  found,     \* getValueFromPath(context, path)
  console    \* the lines written to the console so far

vars == <<rule, context, doc, restored, redoc, verdict, verdict2, path, found, console>>

Init ==
  /\ context \in Contexts
  /\ \/ rule \in Rules /\ doc = None
     \/ rule = None /\ doc \in Docs
  /\ restored = None
  /\ redoc = None
  /\ verdict = None
  /\ verdict2 = None
  /\ path = None
  /\ found = None
  /\ console = <<>>

\* engine.evaluate(rule, context)
EvaluateRule ==
  /\ rule # None
  /\ verdict = None
  /\ verdict' = evaluate(rule, context)
  /\ console' = console \o ConsoleOf(rule, verdict'.log)
  /\ UNCHANGED <<rule, context, doc, restored, redoc, verdict2, path, found>>

\* serializer.serialize(rule)
SerializeRule ==
  /\ rule # None
  /\ doc = None
  /\ doc' = serialize(rule)
  /\ UNCHANGED <<rule, context, restored, redoc, verdict, verdict2, path, found, console>>

\* serializer.deserialize(doc), of a document that was produced or given
DeserializeDoc ==
  /\ doc # None
  /\ ~IsThrow(doc)
  /\ restored = None
  /\ restored' = deserialize(doc)
  /\ UNCHANGED <<rule, context, doc, redoc, verdict, verdict2, path, found, console>>

\* engine.evaluate(restored, context)
EvaluateRestored ==
  /\ restored # None
  /\ ~IsThrow(restored)
  /\ verdict2 = None
  /\ verdict2' = evaluate(restored, context)
  /\ console' = console \o ConsoleOf(restored, verdict2'.log)
  /\ UNCHANGED <<rule, context, doc, restored, redoc, verdict, path, found>>

\* serializer.serialize(restored)
SerializeRestored ==
  /\ restored # None
  /\ ~IsThrow(restored)
  /\ redoc = None
  /\ redoc' = serialize(restored)
  /\ UNCHANGED <<rule, context, doc, restored, verdict, verdict2, path, found, console>>

Next ==
  \/ EvaluateRule
  \/ SerializeRule
  \/ DeserializeDoc
  \/ EvaluateRestored
  \/ SerializeRestored

Spec == Init /\ [][Next]_vars

\* ---- getValueFromPath called on its own
RoleA == Obj(10, <<Entry("name", S1("a"))>>)
RoleB == Obj(11, <<Entry("name", S1("b"))>>)
RoleC == Obj(12, <<Entry("name", S1("c"))>>)
UserA == Obj(13, <<Entry("name", S1("Alice")), Entry("roles", Arr(14, <<RoleA>>))>>)
UserB == Obj(15, <<Entry("name", S1("Bob")), Entry("roles", Arr(16, <<RoleB, RoleC>>))>>)
\* a user that has neither name nor roles
UserN == Obj(17, <<Entry("id", Num(2))>>)
Users == {UserA, UserB, UserN}
UsersData == {Obj(18, <<Entry("users", Arr(19, us))>>) : us \in SeqsUpTo(Users, MaxLen)}

\* { [key]: { sales: [...] } }
Quarter(id, key, sales) ==
  Obj(id, <<Entry(key, Obj(id + 1, <<Entry("sales", Arr(id + 2, sales))>>))>>)
\* the salesData of the documentation
SalesData ==
  Obj(20, <<Entry("quarters",
                  Arr(21, << Quarter(22, "q1", <<Num(100), Num(200), Num(150)>>),
                             Quarter(25, "q2", <<Num(180), Num(220), Num(190)>>),
                             Quarter(28, "q3", <<Num(210), Num(250), Num(200)>>) >>))>>)

PathObjects == UsersData \cup {SalesData, EmptyContext, Null, Undef, S1("apple")}
Paths ==
  { S1("users"), S1("missing"), S1("constructor"), S1("toString"),
    Str(<<"users", "0">>), Str(<<"users", "0", "name">>), Str(<<"users", "1", "id">>),
    Str(<<"users", "4", "name">>), Str(<<"users", "length">>), Str(<<"users", "map">>),
    Str(<<"users", "0", "roles", "0", "name">>), Str(<<"users", "name">>),
    Str(<<"users", "0", "*", "name">>),
    Str(<<"users", "*">>), Str(<<"users", "*", "name">>), Str(<<"users", "*", "id">>),
    Str(<<"users", "*", "roles">>), Str(<<"users", "*", "roles", "*">>),
    Str(<<"users", "*", "roles", "*", "name">>), Str(<<"users", "*", "roles", "0", "name">>),
    Str(<<"quarters", "*", "*", "sales", "0">>), Str(<<"quarters", "*", "q1", "sales", "0">>) }

InitPath ==
  /\ context \in PathObjects
  /\ path \in Paths
  /\ found = None
  /\ console = <<>>
  /\ rule = None
  /\ doc = None
  /\ restored = None
  /\ redoc = None
  /\ verdict = None
  /\ verdict2 = None

\* getValueFromPath(context, path)
ResolvePath ==
  /\ path # None
  /\ found = None
  /\ found' = getValueFromPath(context, path)
  /\ console' = console \o Writes(context, path)
  /\ UNCHANGED <<rule, context, doc, restored, redoc, verdict, verdict2, path>>

NextPath == ResolvePath

SpecPath == InitPath /\ [][NextPath]_vars

\* ---- the comparison operators on operands of every kind
Jan15 == DateV(30, 15)
\* { age: 5.7 }
AgeContext == Obj(31, <<Entry("age", Dec(5, 7))>>)
CompareContexts == {EmptyContext, AgeContext}
\* 15 and 16 stand for the timestamps of 2023-01-15 and 2023-01-16
CompareOperands ==
  { Num(0), Num(3), Num(5), Num(-2), Dec(5, 2), Dec(5, 7), Dec(-2, 5), Num(15), Num(16),
    S1("10"), S1("apple"), S1("banana"), S1("age"),
    S1("2023-01-15"), S1("2023-01-16"), Str(<<"2023-01-16T00:00:00", "000Z">>),
    Jan15, Jan16, Bool(TRUE), Null, Undef, AdminRole, Arr(32, <<Num(1)>>) }
CompareRules ==
  {Node(op, <<l, r>>) : op \in Comparisons, l \in CompareOperands, r \in CompareOperands}

InitCompare ==
  /\ context \in CompareContexts
  /\ rule \in CompareRules
  /\ doc = None
  /\ restored = None
  /\ redoc = None
  /\ verdict = None
  /\ verdict2 = None
  /\ path = None
  /\ found = None
  /\ console = <<>>

SpecCompare == InitCompare /\ [][Next]_vars

\* ---- operand resolution on contexts whose values are falsy
\* { flag: v, name: "admin" }
FlagContext(v) == Obj(33, <<Entry("flag", v), Entry("name", S1("admin"))>>)
ResolveContexts ==
  {Null}
    \cup {FlagContext(v) : v \in {Null, Undef, Bool(FALSE), Bool(TRUE), Num(0), S1(""), S1("user")}}
ResolveOperands ==
  { S1("flag"), S1("name"), S1("missing"), S1("admin"), S1(""),
    Num(0), Num(1), Bool(FALSE), Null, Undef, AdminRole, Arr(34, <<>>),
    NameIsAdmin, Node("not", <<S1("flag")>>) }
ResolveRules ==
  {Node("not", <<a>>) : a \in ResolveOperands}
    \cup {Node(op, <<a>>) : op \in Variadic, a \in ResolveOperands}
    \cup {Node(op, <<a, b>>) : op \in Variadic \cup {"eq"}, a \in ResolveOperands, b \in ResolveOperands}

InitResolve ==
  /\ context \in ResolveContexts
  /\ rule \in ResolveRules
  /\ doc = None
  /\ restored = None
  /\ redoc = None
  /\ verdict = None
  /\ verdict2 = None
  /\ path = None
  /\ found = None
  /\ console = <<>>

SpecResolve == InitResolve /\ [][Next]_vars

\* every variable holds a value of the one record shape, or an outcome
TypeOK ==
  /\ rule.t \in {"none", "node"}
  /\ doc.t \in {"none", "object", "throw"}
  /\ verdict = None \/ verdict.r.t \in {"boolean", "throw"}
  /\ verdict2 = None \/ verdict2.r.t \in {"boolean", "throw"}

\* ------------------------------------------------------------------ claims
\* the context the rule is computed with
Ctx == DefaultContext(context)

RECURSIVE Mentions(_, _)
\* v is x or holds x at some depth
Mentions(v, x) == v = x \/ \E i \in 1..Len(v.c) : Mentions(v.c[i], x)

IsDoc(v) == v.t = "object" /\ HasOwnKey(v, "operator")
DocOperator(d) == OwnValue(d, "operator")
DocArgs(d) == OwnValue(d, "args").c
IsRegistryName(name) == name.t = "string" /\ Len(name.s) = 1 /\ name.s[1] \in Registry

RECURSIVE WellFormed(_)
\* a RuleDocument of section 6: a registry name, and as many arguments as the
\* constructor takes, each a literal, a nested document, an array or the
\* reserved token; the condition of a quantifier is a document
WellFormed(d) ==
  /\ IsDoc(d)
  /\ IsRegistryName(DocOperator(d))
  /\ HasOwnKey(d, "args")
  /\ OwnValue(d, "args").t = "array"
  /\ LET op == DocOperator(d).s[1]
         args == DocArgs(d)
     IN /\ op \in Variadic \/ Len(args) = Len(NodeFields(op))
        /\ op \in Quantifiers => IsDoc(args[2])
        /\ \A i \in 1..Len(args) : IsDoc(args[i]) => WellFormed(args[i])

RECURSIVE HasUnknownOperator(_)
\* the document, or a nested document among its args at any depth, names an
\* operator that is no registry key
HasUnknownOperator(d) ==
  /\ IsDoc(d)
  /\ \/ ~IsRegistryName(DocOperator(d))
     \/ /\ HasOwnKey(d, "args")
        /\ OwnValue(d, "args").t = "array"
        /\ \E i \in 1..Len(DocArgs(d)) : HasUnknownOperator(DocArgs(d)[i])

\* C1: for every operator tree T and every context c,
\* evaluate(deserialize(serialize(T)), c) equals evaluate(T, c).
C1_RoundTripEvaluatesAlike ==
  (rule # None /\ verdict # None /\ verdict2 # None) => verdict2.r = verdict.r

\* C2: for every well-formed RuleDocument d, serialize(deserialize(d)) is
\* structurally equal to d; an arg that is the token "#$self$#" in d is again
\* that string in the result.
C2_DocumentRoundTrip ==
  (rule = None /\ WellFormed(doc) /\ redoc # None) => redoc = doc

\* C3: in serialize(T) every operand that is the self sentinel appears as the
\* string token "#$self$#", at every depth; the document never contains the
\* in-memory sentinel.
C3_SelfBecomesToken ==
  (rule # None /\ doc # None /\ ~IsThrow(doc)) =>
    /\ ~Mentions(doc, self)
    /\ Mentions(rule, self) => Mentions(doc, serializedSelfSymbol)

\* C4: deserialize fails with the unknown-operator error and returns no node
\* whenever the document, or a nested document among its args, has an
\* operator string that is not one of the 14 registry names.
C4_UnknownOperatorFails ==
  (rule = None /\ restored # None /\ HasUnknownOperator(doc)) => restored = UnknownOperator

\* C5: Engine.evaluate returns exactly true or false and never raises, for
\* every tree built from the 14 operators, constructed directly or by
\* deserialize, and every context.
C5_EvaluateTotal ==
  /\ verdict # None => verdict.r.t = "boolean"
  /\ (verdict2 # None /\ restored.t = "node") => verdict2.r.t = "boolean"

\* ---- and / or
IsLogical == rule.t = "node" /\ rule.s[1] \in Variadic

\* operand i of the rule, resolved on its own
Operand(i) == resolveValue(rule.c[i], Ctx, FALSE, <<i>>)
\* operand i decides: falsy under and, truthy under or
Decides(i) == ~IsThrow(Operand(i).r) /\ (Truthy(Operand(i).r) <=> rule.s = <<"or">>)
\* operand i is the first deciding one, and none before it raises
FirstDeciding(i) ==
  /\ Decides(i)
  /\ \A j \in 1..(i - 1) : ~Decides(j) /\ ~IsThrow(Operand(j).r)

RECURSIVE TopLevel(_)
\* the operands of the rule the calls of resolveValue were made on, in order
TopLevel(log) ==
  IF log = <<>> THEN <<>>
  ELSE (IF Head(log).k = "resolve" /\ Len(Head(log).at) = 1
        THEN <<Head(log).at[1]>> ELSE <<>>) \o TopLevel(Tail(log))

\* C6: and / or evaluate their operands left to right and stop at the first
\* deciding one: and returns false at the first falsy operand, or returns
\* true at the first truthy one, and nothing to the right of the deciding
\* operand is resolved or computed.
C6_ShortCircuit ==
  (IsLogical /\ verdict # None) =>
    \A i \in 1..Len(rule.c) :
      FirstDeciding(i) =>
        /\ verdict.r = Bool(rule.s = <<"or">>)
        /\ TopLevel(verdict.log) = [j \in 1..i |-> j]
        /\ \A e \in 1..Len(verdict.log) :
             LET at == verdict.log[e].at IN at # <<>> => at[1] <= i

\* and(0, <node>): the node right of the deciding operand
C6_Witness ==
  /\ IsLogical /\ verdict # None
  /\ Len(rule.c) = 2
  /\ FirstDeciding(1)
  /\ rule.c[2].t = "node"

\* ---- any / all / none
IsQuantifier == rule.t = "node" /\ rule.s[1] \in Quantifiers /\ rule.c[2].t = "node"
\* what arrayPath resolves to
ArrayValue == IF Truthy(Ctx) THEN getValueFromPath(Ctx, rule.c[1]) ELSE Undef
\* the condition computed with the element as its whole context
OnElement(element) == compute(rule.c[2], element, <<2>>)
Raising(element) == IsThrow(OnElement(element).r)
Satisfies(element) == ~Raising(element) /\ Truthy(OnElement(element).r)

RECURSIVE Visited(_)
\* the contexts the condition of the rule was computed with, in order
Visited(log) ==
  IF log = <<>> THEN <<>>
  ELSE (IF Head(log).k = "compute" /\ Head(log).at = <<2>>
        THEN <<Head(log).ctx>> ELSE <<>>) \o Visited(Tail(log))

\* C7: when arrayPath resolves to an array A, any is true iff the condition
\* is truthy for some element of A, all iff for every element, none iff for
\* no element, the condition being computed with the single element as its
\* whole context; for empty A any is false, all true, none true.
C7_QuantifierMeaning ==
  (IsQuantifier /\ verdict # None /\ ArrayValue.t = "array") =>
    LET A == ArrayValue.c
        some == \E i \in 1..Len(A) : Satisfies(A[i])
        every == \A i \in 1..Len(A) : Satisfies(A[i])
        seen == Visited(verdict.log)
    IN /\ rule.s = <<"any">> => verdict.r = Bool(some)
       /\ rule.s = <<"all">> => verdict.r = Bool(every)
       /\ rule.s = <<"none">> => verdict.r = Bool(~some)
       /\ \A i \in 1..Len(seen) : seen[i] = A[i]

\* any("items", eq("name", "admin")) on items whose only element is not the
\* admin, in a context whose own name is "admin"
C7_Witness ==
  /\ IsQuantifier /\ verdict # None /\ ArrayValue.t = "array"
  /\ rule.c[2] = NameIsAdmin
  /\ ArrayValue.c = <<UserRole>>
  /\ getValueFromPath(Ctx, S1("name")) = S1("admin")

Absent == ArrayValue = Undef
Empty == ArrayValue.t = "array" /\ ArrayValue.c = <<>>

\* C8: all returns true, any false and none true whenever the array at path
\* is empty or absent.
C8_EmptyOrAbsent ==
  (IsQuantifier /\ verdict # None /\ (Empty \/ Absent)) => verdict.r = Bool(rule.s # <<"any">>)

\* C8 as amended: on an empty array all returns true, any false and none
\* true; on an absent path all returns false, any false and none true.
C8_EmptyAndAbsent ==
  (IsQuantifier /\ verdict # None) =>
    /\ Empty => verdict.r = Bool(rule.s # <<"any">>)
    /\ Absent => verdict.r = Bool(rule.s = <<"none">>)

\* all(...) evaluated on a context where the path is absent
C8_Witness ==
  /\ IsQuantifier /\ verdict # None
  /\ rule.s = <<"all">>
  /\ Absent
  /\ Truthy(Ctx)

\* C9: when arrayPath does not resolve to an array - the path is missing or
\* the value is an object, a string, a number or null - any and all return
\* false and none returns true, and the condition is not evaluated.
C9_NotAnArray ==
  (IsQuantifier /\ verdict # None /\ ArrayValue.t # "array") =>
    /\ verdict.r = Bool(rule.s = <<"none">>)
    /\ verdict.log = <<Event("compute", <<>>, Ctx)>>

\* a quantifier over `items` where items is an object, a string, a number
\* or null
C9_Witness ==
  /\ IsQuantifier /\ verdict # None
  /\ rule.c[1] = S1("items")
  /\ ArrayValue.t \in {"object", "string", "number", "null"}

\* C10: if computing the condition on an element raises, the quantifier does
\* not propagate the exception and takes the element as not satisfying the
\* condition: any and none go on to the next element, all returns false.
C10_RaisingElement ==
  (IsQuantifier /\ verdict # None /\ ArrayValue.t = "array") =>
    LET A == ArrayValue.c
        visits == Len(Visited(verdict.log))
    IN \A i \in 1..Len(A) :
         Raising(A[i]) =>
           /\ verdict.r.t = "boolean"
           /\ rule.s = <<"all">> => verdict.r = Bool(FALSE)
           /\ rule.s = <<"any">> =>
                verdict.r = Bool(\E j \in 1..Len(A) : Satisfies(A[j]))
           /\ rule.s = <<"none">> =>
                verdict.r = Bool(~\E j \in 1..Len(A) : Satisfies(A[j]))
           /\ (rule.s # <<"all">> /\ i < Len(A) /\ \A j \in 1..i : ~Satisfies(A[j]))
                => visits > i
           /\ (rule.s = <<"all">> /\ \A j \in 1..(i - 1) : Satisfies(A[j]))
                => visits = i

\* any over two elements: the condition raises on the first and holds of
\* the second
C10_Witness ==
  /\ IsQuantifier /\ verdict # None /\ ArrayValue.t = "array"
  /\ rule.s = <<"any">>
  /\ Len(ArrayValue.c) = 2
  /\ Raising(ArrayValue.c[1])
  /\ Satisfies(ArrayValue.c[2])
  /\ verdict.r = Bool(TRUE)

\* ---- the self sentinel
\* the condition has an operand that is the sentinel
HasSelfOperand(cond) == \E i \in 1..Len(cond.c) : cond.c[i] = self
\* the condition with the sentinel replaced by the value x
Substituted(cond, x) ==
  Node(cond.s[1], [i \in 1..Len(cond.c) |-> IF cond.c[i] = self THEN x ELSE cond.c[i]])
\* the condition of the rule holds of x when self denotes x
HoldsOfSelf(x) ==
  LET out == compute(Substituted(rule.c[2], x), x, <<2>>)
  IN ~IsThrow(out.r) /\ Truthy(out.r)
Primitive(x) == x.t \in {"number", "string", "boolean"}

\* C11: every operator that resolves operands resolves an operand that is
\* the self sentinel to the current context value, so inside a quantifier
\* over a flat array of primitives self denotes the current element for all
\* of them: all("scores", gte(self, 80)) compares each score with 80.
C11_SelfIsElement ==
  (/\ IsQuantifier /\ verdict # None /\ ArrayValue.t = "array"
   /\ HasSelfOperand(rule.c[2])
   /\ \A i \in 1..Len(ArrayValue.c) : Primitive(ArrayValue.c[i])) =>
    LET A == ArrayValue.c
        some == \E i \in 1..Len(A) : HoldsOfSelf(A[i])
        every == \A i \in 1..Len(A) : HoldsOfSelf(A[i])
    IN /\ rule.s = <<"any">> => verdict.r = Bool(some)
       /\ rule.s = <<"all">> => verdict.r = Bool(every)
       /\ rule.s = <<"none">> => verdict.r = Bool(~some)

\* ---- getValueFromPath
\* one step that descends through own properties only: the keys of an
\* object, the indices and the length of an array
OwnStep(acc, part) ==
  IF acc.t = "object" /\ HasOwnKey(acc, part) THEN OwnValue(acc, part)
  ELSE IF acc.t = "array" /\ IsIndex(part) /\ IndexOf(part) <= Len(acc.c)
       THEN acc.c[IndexOf(part)]
  ELSE IF acc.t = "array" /\ part = "length" THEN Num(Len(acc.c))
  ELSE Undef

RECURSIVE OwnReduce(_, _)
OwnReduce(acc, segs) ==
  IF segs = <<>> THEN acc ELSE OwnReduce(OwnStep(acc, Head(segs)), Tail(segs))

\* C12: without a wildcard getValueFromPath(obj, path) splits path on '.' and
\* descends, segment by segment, only through own properties; a null or
\* undefined accumulator, a missing key, an out-of-range index or a segment
\* that names only an inherited member ("constructor", "toString") yields
\* undefined.
C12_OwnPropertiesOnly ==
  (path # None /\ found # None /\ ~IncludesStar(path.s)) =>
    found = OwnReduce(context, path.s)

\* the position of the first wildcard of the path
FirstStar ==
  CHOOSE i \in 1..Len(path.s) : path.s[i] = "*" /\ \A j \in 1..(i - 1) : path.s[j] # "*"
Remaining == SubSeq(path.s, FirstStar + 1, Len(path.s))
\* what the segments before the first wildcard resolve to
Wildcarded == ReducePath(context, SubSeq(path.s, 1, FirstStar - 1))
\* a wildcard with a remaining path, applied to an array
WildcardCase ==
  /\ path # None /\ found # None
  /\ IncludesStar(path.s)
  /\ Remaining # <<>>
  /\ Wildcarded.t = "array"
\* the remaining path applied to every element, in order
PerElement ==
  [i \in 1..Len(Wildcarded.c) |-> getValueFromPath(Wildcarded.c[i], Str(Remaining))]

RECURSIVE Spliced(_)
\* the elements of the results that are arrays and the other results
\* themselves, in order
Spliced(results) ==
  IF results = <<>> THEN <<>>
  ELSE (IF Head(results).t = "array" THEN Head(results).c ELSE <<Head(results)>>)
         \o Spliced(Tail(results))

\* C13: a wildcard with a non-empty remaining path applies the remaining
\* path to every element of the array in order; if any per-element result is
\* an array the result is the one-level flattened concatenation of the
\* per-element results, otherwise the per-element results without the
\* undefined ones.
C13_WildcardResults ==
  WildcardCase =>
    /\ found.t = "array"
    /\ found.c = IF \E i \in 1..Len(PerElement) : PerElement[i].t = "array"
                 THEN Spliced(PerElement)
                 ELSE SelectSeq(PerElement, LAMBDA x : x # Undef)

\* "users.*.roles.*.name" over two users with one and two roles yields the
\* three names
C13_Witness ==
  /\ WildcardCase
  /\ path = Str(<<"users", "*", "roles", "*", "name">>)
  /\ Wildcarded.c = <<UserA, UserB>>
  /\ found.c = <<S1("a"), S1("b"), S1("c")>>

\* ---- the comparison operators
IsComparison == rule.t = "node" /\ rule.s[1] \in Comparisons
\* the operands as compute resolves them
LeftResult == resolveValue(rule.c[1], Ctx, rule.s[1] \in ResolvesSelf, <<1>>).r
RightResult == resolveValue(rule.c[2], Ctx, rule.s[1] \in ResolvesSelf, <<2>>).r
\* the relation of a comparison operator on two integers
Holds(op, a, b) ==
  CASE op = "eq" -> a = b
    [] op = "ne" -> a # b
    [] op = "gt" -> a > b
    [] op = "gte" -> a >= b
    [] op = "lt" -> a < b
    [] OTHER -> a <= b
\* the instant of a date-like value, in tenths of a millisecond
InstantTenths(v) == IF v.t = "number" THEN Tenths(v) ELSE 10 * normalizeDate(v).n

\* C14: for each of eq, ne, gt, gte, lt, lte, when both resolved operands are
\* date-like (a valid Date, an ISO string, a strictly positive timestamp),
\* the result is the relation on their epoch instants, whatever
\* representation each side uses.
C14_DatesByInstant ==
  (IsComparison /\ verdict # None /\ isDateLike(LeftResult) /\ isDateLike(RightResult)) =>
    verdict.r = Bool(Holds(rule.s[1], InstantTenths(LeftResult), InstantTenths(RightResult)))

IsNumber(v) == v.t = "number" /\ v.s = <<>>

\* C15: for any two numeric operands a and b, literals or resolved from the
\* context, integers or not, of any sign, gt, gte, lt, lte, eq and ne return
\* exactly a > b, a >= b, a < b, a <= b, a = b and a /= b.
C15_NumbersCompare ==
  (IsComparison /\ verdict # None /\ IsNumber(LeftResult) /\ IsNumber(RightResult)) =>
    verdict.r = Bool(Holds(rule.s[1], Tenths(LeftResult), Tenths(RightResult)))

\* C16: when the operands are not both date-like, gt, gte, lt and lte return
\* false, without raising, unless both raw operands are of the same orderable
\* kind, both numbers or both strings; gt("10", 5) is false.
C16_MismatchedKinds ==
  (/\ IsComparison /\ verdict # None
   /\ rule.s[1] \in {"gt", "gte", "lt", "lte"}
   /\ ~(isDateLike(LeftResult) /\ isDateLike(RightResult))
   /\ ~(LeftResult.t = RightResult.t /\ LeftResult.t \in {"number", "string"})) =>
    verdict.r = Bool(FALSE)

\* ---- in / notIn
IsMembership == rule.t = "node" /\ rule.s[1] \in {"in", "notIn"}
\* the value operand, resolved
ResolvedValue == resolveValue(rule.c[1], Ctx, FALSE, <<1>>).r
\* the same operands under the other of the two operators
Dual == Node(IF rule.s = <<"in">> THEN "notIn" ELSE "in", rule.c)

RECURSIVE Malformed(_)
\* a document with a registry name and an args array of the wrong length for
\* the constructor, at the top or among its args
Malformed(d) ==
  /\ IsDoc(d)
  /\ IsRegistryName(DocOperator(d))
  /\ HasOwnKey(d, "args")
  /\ OwnValue(d, "args").t = "array"
  /\ \/ /\ DocOperator(d).s[1] \notin Variadic
        /\ Len(DocArgs(d)) # Len(NodeFields(DocOperator(d).s[1]))
     \/ \E i \in 1..Len(DocArgs(d)) : Malformed(DocArgs(d)[i])

\* C18: a well-named but malformed document (wrong arity, as
\* {operator:"eq", args:[]} or {operator:"any", args:["p"]}) makes
\* deserialize fail with a construction error; no node is returned for it.
C18_MalformedFails ==
  (rule = None /\ restored # None /\ Malformed(doc)) => IsThrow(restored)

\* C19: evaluation has no side effects: after evaluate returns, nothing has
\* been written or logged.
C19_NothingWritten ==
  (verdict # None \/ verdict2 # None) => console = <<>>

\* C20: a wildcard applies to the object elements a previous wildcard
\* produced: "quarters.*.*.sales.0" against the salesData of the
\* documentation yields [100, 180, 210].
C20_WildcardOverObjects ==
  (/\ path = Str(<<"quarters", "*", "*", "sales", "0">>)
   /\ context = SalesData
   /\ found # None) =>
    found.t = "array" /\ found.c = <<Num(100), Num(180), Num(210)>>

\* ---- the order of the visits of a quantifier
\* element i decides: it fails the condition under all, satisfies it under
\* any and none
DecidesAt(i) ==
  IF rule.s = <<"all">> THEN ~Satisfies(ArrayValue.c[i]) ELSE Satisfies(ArrayValue.c[i])
\* the index of the deciding element, 0 when no element decides
Deciding ==
  IF \E i \in 1..Len(ArrayValue.c) : DecidesAt(i)
  THEN CHOOSE i \in 1..Len(ArrayValue.c) : DecidesAt(i) /\ \A j \in 1..(i - 1) : ~DecidesAt(j)
  ELSE 0

\* C21: quantifiers visit the elements in index order and stop at the
\* deciding element: any returns true at the first element that satisfies the
\* condition, all false at the first that does not, none false at the first
\* that does; the condition is evaluated on no element after the deciding
\* one, and at most once per element.
C21_StopsAtDeciding ==
  (IsQuantifier /\ verdict # None /\ ArrayValue.t = "array") =>
    LET A == ArrayValue.c
        last == IF Deciding = 0 THEN Len(A) ELSE Deciding
    IN /\ Visited(verdict.log) = SubSeq(A, 1, last)
       /\ Deciding # 0 => verdict.r = Bool(rule.s = <<"any">>)
       /\ Deciding = 0 => verdict.r = Bool(rule.s # <<"any">>)

\* any over two elements of which the first satisfies the condition
C21_Witness ==
  /\ IsQuantifier /\ verdict # None /\ ArrayValue.t = "array"
  /\ rule.s = <<"any">>
  /\ Len(ArrayValue.c) = 2
  /\ Deciding = 1

\* ---- operand resolution
\* an operand that is neither the sentinel nor an object with a compute key
Plain(x) == x # self /\ ~(x.t = "object" /\ HasOwnKey(x, "compute"))
\* the value of an operand by the three cases: a string that resolves to a
\* defined value, a nested node, anything else
ExpectedOperand(x) ==
  IF x.t = "string" /\ getValueFromPath(Ctx, x) # Undef THEN getValueFromPath(Ctx, x)
  ELSE IF x.t = "node" THEN compute(x, Ctx, <<>>).r
  ELSE x

IsEquality == rule.t = "node" /\ rule.s[1] \in {"eq", "ne"}
\* the same operands under the other of the two operators
Negated == Node(IF rule.s = <<"eq">> THEN "ne" ELSE "eq", rule.c)

\* C23: eq and ne compare by instant when both resolved operands are
\* date-like and by strict equality of the raw resolved operands otherwise;
\* for every pair of operands and every context ne(a, b) is the negation of
\* eq(a, b).
C23_EqualityAndNegation ==
  (IsEquality /\ verdict # None /\ ~IsThrow(verdict.r)) =>
    LET equal == IF isDateLike(LeftResult) /\ isDateLike(RightResult)
                 THEN normalizeDate(LeftResult).n = normalizeDate(RightResult).n
                 ELSE StrictEquals(LeftResult, RightResult)
    IN /\ verdict.r = Bool(equal = (rule.s = <<"eq">>))
       /\ verdict.r = Bool(~Truthy(evaluate(Negated, context).r))

\* ---- strings that are no dates
NonIso(v) == v.t = "string" /\ ~MatchesIso(v.s)
\* the relation on the raw operands, outside the date branch
RawCompare(op, l, r) ==
  CASE op = "eq" -> StrictEquals(l, r)
    [] op = "ne" -> ~StrictEquals(l, r)
    [] op = "gt" -> Orderable(l) /\ Orderable(r) /\ JsLess(r, l)
    [] op = "gte" -> Orderable(l) /\ Orderable(r) /\ JsLessEq(r, l)
    [] op = "lt" -> Orderable(l) /\ Orderable(r) /\ JsLess(l, r)
    [] OTHER -> Orderable(l) /\ Orderable(r) /\ JsLessEq(l, r)

\* C24: a string that does not match the ISO pattern is never normalized to
\* an instant, so a comparison with such a string on either side never takes
\* the date branch; gt("apple", "banana") is false.
C24_NonIsoStrings ==
  (IsComparison /\ verdict # None /\ (NonIso(LeftResult) \/ NonIso(RightResult))) =>
    verdict.r = Bool(RawCompare(rule.s[1], LeftResult, RightResult))

\* gt("apple", "banana") evaluated: false
C24_Witness ==
  /\ rule = Node("gt", <<S1("apple"), S1("banana")>>)
  /\ verdict # None
  /\ verdict.r = Bool(FALSE)

\* ---- a wildcard on a value that is no array, a wildcard at the end
RECURSIVE StarOffArray(_, _)
\* the resolution of the segments from the value v reaches a "*" on a value
\* that is no array, at the top or under an earlier wildcard
StarOffArray(v, segs) ==
  IF segs = <<>> \/ v.t \in {"null", "undefined"} THEN FALSE
  ELSE IF Head(segs) = "*"
       THEN IF v.t # "array" THEN TRUE
            ELSE Tail(segs) # <<>> /\ \E i \in 1..Len(v.c) : StarOffArray(v.c[i], Tail(segs))
  ELSE TypeofObject(v) /\ HasProperty(v, Head(segs))
         /\ StarOffArray(GetProperty(v, Head(segs)), Tail(segs))

C26_NoneNegatesAny ==
  (IsQuantifier /\ rule.s[1] \in {"any", "none"} /\ verdict # None) =>
    LET other == evaluate(Node(IF rule.s = <<"any">> THEN "none" ELSE "any", rule.c), context).r
    IN /\ verdict.r.t = "boolean"
       /\ other.t = "boolean"
       /\ verdict.r = Bool(~Truthy(other))

\* none over an array with an element the condition raises on and no element
\* that satisfies it
C26_Witness ==
  /\ IsQuantifier /\ verdict # None /\ ArrayValue.t = "array"
  /\ rule.s = <<"none">>
  /\ \E i \in 1..Len(ArrayValue.c) : Raising(ArrayValue.c[i])
  /\ \A i \in 1..Len(ArrayValue.c) : ~Satisfies(ArrayValue.c[i])
  /\ verdict.r = Bool(TRUE)

\* ---- strings that do not resolve, under and / or / not
\* a non-empty string that resolves to undefined in the context
Unresolved(x) ==
  /\ x.t = "string"
  /\ x.s # <<"">>
  /\ Truthy(Ctx) => getValueFromPath(Ctx, x) = Undef

\* C27: a non-empty string operand of and / or / not that does not resolve in
\* the context is used as a literal and counts as truthy: and(s) is true,
\* or(s) is true and not(s) is false.
C27_MissingPathIsTruthy ==
  (rule.t = "node" /\ verdict # None /\ Len(rule.c) = 1 /\ Unresolved(rule.c[1])) =>
    /\ rule.s = <<"and">> => verdict.r = Bool(TRUE)
    /\ rule.s = <<"or">> => verdict.r = Bool(TRUE)
    /\ rule.s = <<"not">> => verdict.r = Bool(FALSE)

\* not("missing") on a context without that key: false
C27_Witness ==
  /\ rule = Node("not", <<S1("missing")>>)
  /\ Truthy(Ctx)
  /\ Unresolved(rule.c[1])
  /\ verdict # None
  /\ verdict.r = Bool(FALSE)

\* ---- undefined entries of a wildcard result
UndefinedIn(items) == Len(SelectSeq(items, LAMBDA x : x = Undef))
Flattened == \E i \in 1..Len(PerElement) : PerElement[i].t = "array"

\* C28: every array returned by wildcard resolution with a non-empty
\* remaining path contains no undefined entries, in the flattened case as
\* well as in the non-flattened case.
C28_NoUndefinedEntries ==
  WildcardCase => (found.t = "array" /\ UndefinedIn(found.c) = 0)

\* C28 as amended: the result contains no undefined entries when no
\* per-element result is an array; when one is, the results are flattened
\* and the undefined per-element results stay in the result.
C28_UndefinedOnlyWhenFlattened ==
  WildcardCase =>
    /\ found.t = "array"
    /\ ~Flattened => UndefinedIn(found.c) = 0
    /\ Flattened => UndefinedIn(found.c) = UndefinedIn(Spliced(PerElement))

\* "users.*.roles" over a user with roles and a user without: the result
\* ends with undefined
C28_Witness ==
  /\ WildcardCase
  /\ path = Str(<<"users", "*", "roles">>)
  /\ Wildcarded.c = <<UserA, UserN>>
  /\ found.c = <<RoleA, Undef>>

\* ---- the ordering operators
IsOrdering == rule.t = "node" /\ rule.s[1] \in {"gt", "gte", "lt", "lte"}
MirrorOf(op) ==
  CASE op = "gt" -> "lt"
    [] op = "lt" -> "gt"
    [] op = "gte" -> "lte"
    [] OTHER -> "gte"
\* the mirror image of the rule: the operands swapped, the relation turned
Mirror == Node(MirrorOf(rule.s[1]), <<rule.c[2], rule.c[1]>>)

\* C29: for every pair of operands a, b and every context gt(a, b) evaluates
\* to the same result as lt(b, a), and gte(a, b) to the same as lte(b, a).
C29_MirrorImages ==
  (IsOrdering /\ verdict # None) => verdict.r = evaluate(Mirror, context).r

\* ---- and / or without operands
IsEmptyLogical == rule.t = "node" /\ rule.s[1] \in Variadic /\ rule.c = <<>>

\* C30: and() evaluates to true and or() to false on every context, and both
\* survive a serialize / deserialize round trip as documents with an empty
\* args list.
C30_EmptyOperands ==
  IsEmptyLogical =>
    /\ verdict # None => verdict.r = Bool(rule.s = <<"and">>)
    /\ doc # None => doc = Doc(S1(rule.s[1]), <<>>)
    /\ restored # None => restored = rule
    /\ verdict2 # None => verdict2.r = Bool(rule.s = <<"and">>)
    /\ redoc # None => redoc = doc

\* and() or or() evaluated, serialized, deserialized, evaluated and
\* serialized again
C30_Witness ==
  /\ IsEmptyLogical
  /\ verdict # None
  /\ verdict2 # None
  /\ redoc # None

====
